---------------------------- MODULE Spec2Model ----------------------------
(***************************************************************************)
(* A model of the lights gateway (arnolddevos/lights):                     *)
(*   - the framer    src/src/busio.rs  (read_lines and its helpers),       *)
(*   - the codec     src/src/codec.rs  (decode, encode, preamble),         *)
(*   - the connection supervisor, as the specification describes it.       *)
(*                                                                         *)
(* Bytes are one-character strings; byte strings are sequences of them.    *)
(***************************************************************************)
EXTENDS Integers, Sequences, FiniteSets, TLC

VARIABLES
    stream,     \* framer: the bytes the input will yield, in order
    pos,        \* framer: how many bytes of the stream have been read
    buf,        \* framer: read_lines' buffer (busio.rs:91)
    pc,         \* framer: "main" (busio.rs:96), "drop" (busio.rs:52), "returned"
    delivered,  \* framer: the lines the callback was invoked with, in order
    result,     \* framer: what read_lines returned ("none" while it runs)
    peak,       \* framer: the buffer's length in the last read_more, resized (busio.rs:20)
    input,      \* codec: the line handed to decode
    message,    \* codec: the Message decode returned ("none" before the call)
    sess,       \* supervisor: "Connecting", "Handshaking", "Active", "Closed"
    reason,     \* supervisor: why the last session closed ("none" before any)
    attempt,    \* supervisor: connection attempts begun so far, counted to MaxAttempts
    wire,       \* supervisor: the bytes written to the device on this connection
    outLog,     \* outbound bus: the messages published to it so far, in order
    cursor,     \* supervisor: how many of outLog the session's subscription is past
    subAt,      \* supervisor: how many had been published when the session subscribed
    written,    \* supervisor: the places in outLog of the messages written on this connection
    lost,       \* outbound bus: the places in outLog published while no session was Active
    inTask,     \* supervisor: the input task: "none", "running", "ended", "cancelled"
    outTask,    \* supervisor: the output task, likewise
    reads,      \* supervisor: lines the input task published on this connection, to MaxReads
    call,       \* codec: a call of Ramp::encode, Ramp::decode or encode, with its argument
    ret,        \* codec: what the call returned (done is FALSE before it returns)
    gafferRx,   \* reactor: whether the inbound bus has gaffer_daemon's Receiver
    inq,        \* reactor: the events gaffer's Receiver has yet to receive, oldest first
    lagged,     \* reactor: the events gaffer's Receiver lost since its last recv
    posted,     \* reactor: sends to the inbound bus so far, counted to MaxEvents
    outSubs,    \* reactor: the active subscribers of the outbound bus
    received,   \* reactor: what inbound.recv() returned to gaffer_daemon, in order
    sent,       \* reactor: gaffer's outbound.send calls and whether each was Ok, in order
    printed,    \* reactor: the lines gaffer printed ("recv" or "send"), in order
    gpc,        \* reactor: "loop" while gaffer_daemon runs
    httpStatus  \* HTTP source: the status of its last response ("none" before any)

framerVars == <<stream, pos, buf, pc, delivered, result, peak>>

codecVars == <<input, message>>

sessionVars == <<sess, reason, attempt, wire, outLog, cursor, subAt, written, lost,
                 inTask, outTask, reads>>

callVars == <<call, ret>>

reactorVars == <<gafferRx, inq, lagged, posted, outSubs, received, sent, printed,
                 gpc, httpStatus>>

vars == <<stream, pos, buf, pc, delivered, result, peak, input, message,
          sess, reason, attempt, wire, outLog, cursor, subAt, written, lost,
          inTask, outTask, reads, call, ret,
          gafferRx, inq, lagged, posted, outSubs, received, sent, printed,
          gpc, httpStatus>>

(***************************************************************************)
(* Bounds.  The source sets LINE_LEN = 1024 and CHUNK_LEN = 4096           *)
(* (busio.rs:11-12).  The framer only compares lengths with them, so the   *)
(* model scales them down, keeping CHUNK_LEN > LINE_LEN, to let every      *)
(* stream and every fragmentation be enumerated.                           *)
(***************************************************************************)
LINE_LEN == 2

CHUNK_LEN == 4

MaxStream == 8

MaxAttempts == 2

MaxQueue == 2

MaxWrites == 2

MaxPublishes == 3

MaxReads == 1

\* The sends to the inbound bus in one run of the reactor.
MaxEvents == 4

\* The capacity of a broadcast bus, and the most subscribers of the outbound one.
BusCapacity == 2

MaxSubs == 1

CR == "\r"

LF == "\n"

Byte == {"a", CR, LF}

IoErrors == {"ConnectionReset", "TimedOut"}

RECURSIVE SeqsUpTo(_, _)
SeqsUpTo(S, n) ==
    IF n = 0 THEN {<<>>}
    ELSE LET shorter == SeqsUpTo(S, n - 1)
         IN  shorter \cup {Append(s, x) : s \in {t \in shorter : Len(t) = n - 1}, x \in S}

Min(a, b) == IF a < b THEN a ELSE b

(***************************************************************************)
(* nom::character::streaming::not_line_ending on a byte slice: the index   *)
(* of the first CR or LF; none is Incomplete; a CR is accepted only when   *)
(* the slice from it compares Ok with "\r\n" (a CR that ends the slice is  *)
(* Incomplete, a CR followed by another byte is an Error).                 *)
(***************************************************************************)
FirstEol(b) ==
    IF \E i \in 1..Len(b) : b[i] \in {CR, LF}
    THEN CHOOSE i \in 1..Len(b) :
             /\ b[i] \in {CR, LF}
             /\ \A j \in 1..(i - 1) : b[j] \notin {CR, LF}
    ELSE 0

not_line_ending(b) ==
    LET i == FirstEol(b)
    IN  IF i = 0 THEN [res |-> "Incomplete", n |-> 0]
        ELSE IF b[i] = CR
             THEN IF i = Len(b) THEN [res |-> "Incomplete", n |-> 0]
                  ELSE IF b[i + 1] = LF THEN [res |-> "Ok", n |-> i - 1]
                  ELSE [res |-> "Error", n |-> 0]
             ELSE [res |-> "Ok", n |-> i - 1]

(***************************************************************************)
(* nom::character::streaming::line_ending: "\n", else "\r\n".              *)
(***************************************************************************)
line_ending(b) ==
    IF Len(b) = 0 THEN [res |-> "Incomplete", n |-> 0]
    ELSE IF b[1] = LF THEN [res |-> "Ok", n |-> 1]
    ELSE IF b[1] # CR THEN [res |-> "Error", n |-> 0]
    ELSE IF Len(b) = 1 THEN [res |-> "Incomplete", n |-> 0]
    ELSE IF b[2] = LF THEN [res |-> "Ok", n |-> 2]
    ELSE [res |-> "Error", n |-> 0]

\* A split_line that takes LF alone for a terminator: the CR of a CRLF stays
\* at the end of the line.
split_line_lf_only(b) ==
    IF \E i \in 1..Len(b) : b[i] = LF
    THEN LET i == CHOOSE k \in 1..Len(b) :
                      b[k] = LF /\ \A j \in 1..(k - 1) : b[j] # LF
         IN  [some |-> TRUE, line |-> SubSeq(b, 1, i - 1),
              buf |-> SubSeq(b, i + 1, Len(b))]
    ELSE [some |-> FALSE, line |-> <<>>, buf |-> b]

(***************************************************************************)
(* split_line (busio.rs:31-43): pair(not_line_ending, line_ending) on the  *)
(* buffer; on Ok the line is split off and the terminator dropped, on any  *)
(* Err (Incomplete or Error) the buffer is left alone.                     *)
(***************************************************************************)
split_line(b) ==
    LET nle == not_line_ending(b)
        le  == IF nle.res = "Ok"
               THEN line_ending(SubSeq(b, nle.n + 1, Len(b)))
               ELSE [res |-> nle.res, n |-> 0]
    IN  IF nle.res = "Ok" /\ le.res = "Ok"
        THEN [some |-> TRUE, line |-> SubSeq(b, 1, nle.n),
              buf |-> SubSeq(b, nle.n + le.n + 1, Len(b))]
        ELSE [some |-> FALSE, line |-> <<>>, buf |-> b]

\* An emit_lines test that passes every line to the callback.
emits_any_length(line) == TRUE

(***************************************************************************)
(* The test of emit_lines (busio.rs:67).                                   *)
(***************************************************************************)
emits(line) == Len(line) <= LINE_LEN

(***************************************************************************)
(* emit_lines (busio.rs:61-71): split lines off the buffer while there is  *)
(* one, passing each line no longer than LINE_LEN to the callback.         *)
(***************************************************************************)
RECURSIVE emit_lines(_)
emit_lines(b) ==
    LET s == split_line(b)
    IN  IF s.some
        THEN LET r == emit_lines(s.buf)
             IN  [buf |-> r.buf,
                  out |-> (IF emits(s.line) THEN <<s.line>> ELSE <<>>) \o r.out]
        ELSE [buf |-> b, out |-> <<>>]

\* The bytes a read of n bytes yields.
Chunk(n) == SubSeq(stream, pos + 1, pos + n)

ReadSizes == 1..Min(CHUNK_LEN, Len(stream) - pos)

\* A loop test that lets a remainder of LINE_LEN + 1 bytes stay in the buffer.
too_long_off_by_one(b) == Len(b) > LINE_LEN + 1

(***************************************************************************)
(* The test of the inner loop of read_lines (busio.rs:100).                *)
(***************************************************************************)
too_long(b) == Len(b) > LINE_LEN

\* The buffer's length once read_more has resized it (busio.rs:20).
resized(b) == Len(b) + CHUNK_LEN

(***************************************************************************)
(* One turn of the main loop of read_lines (busio.rs:96-100): read_more    *)
(* appends 1..CHUNK_LEN fresh bytes, emit_lines delivers the complete      *)
(* lines, and a remainder longer than LINE_LEN enters drop_long_line.      *)
(***************************************************************************)
ReadMain ==
    /\ pc = "main"
    /\ \E n \in ReadSizes :
        LET e == emit_lines(buf \o Chunk(n))
        IN  /\ pos' = pos + n
            /\ buf' = e.buf
            /\ delivered' = delivered \o e.out
            /\ pc' = IF too_long(e.buf) THEN "drop" ELSE "main"
    /\ peak' = resized(buf)
    /\ UNCHANGED <<stream, result>>
    /\ UNCHANGED <<codecVars, sessionVars, callVars, reactorVars>>

(***************************************************************************)
(* One turn of the loop of drop_long_line (busio.rs:50-57), and, when it   *)
(* breaks, the rest of the inner loop of read_lines (busio.rs:100-103):    *)
(* the buffer is cleared and refilled; when split_line finds a line it is  *)
(* dropped, emit_lines delivers what follows and the loop test is made     *)
(* again.                                                                  *)
(***************************************************************************)
ReadDrop ==
    /\ pc = "drop"
    /\ \E n \in ReadSizes :
        LET s == split_line(Chunk(n))
            e == emit_lines(s.buf)
        IN  /\ pos' = pos + n
            /\ IF s.some
               THEN /\ buf' = e.buf
                    /\ delivered' = delivered \o e.out
                    /\ pc' = IF too_long(e.buf) THEN "drop" ELSE "main"
               ELSE /\ buf' = Chunk(n)
                    /\ delivered' = delivered
                    /\ pc' = "drop"
    /\ peak' = resized(<<>>)
    /\ UNCHANGED <<stream, result>>
    /\ UNCHANGED <<codecVars, sessionVars, callVars, reactorVars>>

\* An end of stream that hands the unterminated tail to the callback.
eof_delivers_tail(b) == IF Len(b) > 0 /\ Len(b) <= LINE_LEN THEN <<b>> ELSE <<>>

(***************************************************************************)
(* What the callback receives when read_more fails (busio.rs:21-27, 96,    *)
(* 52): nothing; the error leaves read_lines through the ? operator.       *)
(***************************************************************************)
eof_delivers(b) == <<>>

(***************************************************************************)
(* read_more reads zero bytes (busio.rs:23-27): the end of the stream.     *)
(* read_lines returns Err(UnexpectedEof) (busio.rs:96, 101, 52).  In       *)
(* drop_long_line the buffer was cleared before the read (busio.rs:51).    *)
(***************************************************************************)
ReadEof ==
    /\ pc \in {"main", "drop"}
    /\ pos = Len(stream)
    /\ buf' = IF pc = "drop" THEN <<>> ELSE buf
    /\ delivered' = delivered \o eof_delivers(buf)
    /\ pc' = "returned"
    /\ peak' = resized(IF pc = "drop" THEN <<>> ELSE buf)
    /\ result' = [ok |-> FALSE, err |-> "UnexpectedEof"]
    /\ UNCHANGED <<stream, pos>>
    /\ UNCHANGED <<codecVars, sessionVars, callVars, reactorVars>>

(***************************************************************************)
(* The read itself fails (busio.rs:21): the io::Error is returned as it    *)
(* is by the ? operators (busio.rs:21, 52, 96, 101).                       *)
(***************************************************************************)
ReadError ==
    /\ pc \in {"main", "drop"}
    /\ \E e \in IoErrors : result' = [ok |-> FALSE, err |-> e]
    /\ buf' = IF pc = "drop" THEN <<>> ELSE buf
    /\ delivered' = delivered \o eof_delivers(buf)
    /\ pc' = "returned"
    /\ peak' = resized(IF pc = "drop" THEN <<>> ELSE buf)
    /\ UNCHANGED <<stream, pos>>
    /\ UNCHANGED <<codecVars, sessionVars, callVars, reactorVars>>

(***************************************************************************)
(* The codec (src/src/codec.rs).  A parser's result is a record            *)
(* [ok, val, rest]; an Option is a record [some, val].                     *)
(***************************************************************************)
UpperDigits == <<"0", "1", "2", "3", "4", "5", "6", "7", "8", "9",
                 "A", "B", "C", "D", "E", "F">>

LowerDigits == <<"0", "1", "2", "3", "4", "5", "6", "7", "8", "9",
                 "a", "b", "c", "d", "e", "f">>

\* format!("{v:02X}") and format!("{v:02x}") of a u8 (codec.rs:178-179).
Hex2U(v) == <<UpperDigits[(v \div 16) + 1], UpperDigits[(v % 16) + 1]>>

Hex2L(v) == <<LowerDigits[(v \div 16) + 1], LowerDigits[(v % 16) + 1]>>

\* char::to_digit(16): the value of a hexadecimal digit, -1 for another byte.
to_digit(c) ==
    IF \E i \in 1..16 : UpperDigits[i] = c
    THEN (CHOOSE i \in 1..16 : UpperDigits[i] = c) - 1
    ELSE IF \E i \in 1..16 : LowerDigits[i] = c
         THEN (CHOOSE i \in 1..16 : LowerDigits[i] = c) - 1
         ELSE -1

\* A byte that is no ASCII character (and, alone, no UTF-8 either).
NonAscii == "0x80"

None == [some |-> FALSE, val |-> 0]

Some(v) == [some |-> TRUE, val |-> v]

(***************************************************************************)
(* u8::from_str_radix(s, 16) on the two characters hex_extract hands it    *)
(* (codec.rs:112): an optional "+" sign, then hexadecimal digits.          *)
(***************************************************************************)
from_str_radix(s) ==
    IF s[1] = "+"
    THEN IF to_digit(s[2]) >= 0 THEN Some(to_digit(s[2])) ELSE None
    ELSE IF to_digit(s[1]) >= 0 /\ to_digit(s[2]) >= 0
         THEN Some(16 * to_digit(s[1]) + to_digit(s[2]))
         ELSE None

(***************************************************************************)
(* hex_extract (codec.rs:110-113): from_utf8, then from_str_radix.         *)
(***************************************************************************)
hex_extract(raw) ==
    IF \E i \in 1..Len(raw) : raw[i] = NonAscii THEN None ELSE from_str_radix(raw)

Fail(inp) == [ok |-> FALSE, val |-> <<>>, rest |-> inp]

\* nom::bytes::complete::tag
tag(t, inp) ==
    IF Len(inp) >= Len(t) /\ SubSeq(inp, 1, Len(t)) = t
    THEN [ok |-> TRUE, val |-> t, rest |-> SubSeq(inp, Len(t) + 1, Len(inp))]
    ELSE Fail(inp)

\* nom::bytes::complete::take
take(n, inp) ==
    IF Len(inp) >= n
    THEN [ok |-> TRUE, val |-> SubSeq(inp, 1, n), rest |-> SubSeq(inp, n + 1, Len(inp))]
    ELSE Fail(inp)

(***************************************************************************)
(* hex_byte (codec.rs:115-117): map_opt(take(2), hex_extract).             *)
(***************************************************************************)
hex_byte(inp) ==
    LET t == take(2, inp)
        h == hex_extract(t.val)
    IN  IF t.ok /\ h.some
        THEN [ok |-> TRUE, val |-> h.val, rest |-> t.rest]
        ELSE Fail(inp)

\* nom::combinator::opt(hex_byte): None, consuming nothing, when hex_byte fails.
opt_hex_byte(inp) ==
    LET h == hex_byte(inp)
    IN  IF h.ok THEN [ok |-> TRUE, val |-> Some(h.val), rest |-> h.rest]
        ELSE [ok |-> TRUE, val |-> None, rest |-> inp]

\* nom::multi::many0(hex_byte): hex bytes until hex_byte fails.
RECURSIVE many0_hex_byte(_)
many0_hex_byte(inp) ==
    LET h == hex_byte(inp)
    IN  IF h.ok
        THEN LET r == many0_hex_byte(h.rest)
             IN  [ok |-> TRUE, val |-> <<h.val>> \o r.val, rest |-> r.rest]
        ELSE [ok |-> TRUE, val |-> <<>>, rest |-> inp]

\* nom::multi::many1(hex_byte): one hex byte at least.
many1_hex_byte(inp) ==
    LET r == many0_hex_byte(inp)
    IN  IF r.val = <<>> THEN Fail(inp) ELSE r

(***************************************************************************)
(* RAMP_CODES (codec.rs:48-65): (code, seconds).                           *)
(***************************************************************************)
RAMP_CODES ==
    << <<\h02, 0>>,   <<\h0A, 4>>,   <<\h12, 8>>,   <<\h1A, 12>>,
       <<\h22, 20>>,  <<\h2A, 30>>,  <<\h32, 40>>,  <<\h3A, 60>>,
       <<\h42, 90>>,  <<\h4A, 120>>, <<\h52, 180>>, <<\h5A, 300>>,
       <<\h62, 420>>, <<\h6A, 600>>, <<\h72, 900>>, <<\h7A, 1020>> >>

\* Level ON (codec.rs:93) and OFF (codec.rs:94).
ON == 255

OFF == 0

(***************************************************************************)
(* Ramp::decode (codec.rs:71-78): the seconds of the first table entry     *)
(* with the code, None when there is none.                                 *)
(***************************************************************************)
Ramp_decode(code) ==
    IF \E i \in 1..Len(RAMP_CODES) : RAMP_CODES[i][1] = code
    THEN Some(RAMP_CODES[CHOOSE i \in 1..Len(RAMP_CODES) :
                            /\ RAMP_CODES[i][1] = code
                            /\ \A j \in 1..(i - 1) : RAMP_CODES[j][1] # code][2])
    ELSE None

\* A Ramp::encode that wants a table duration strictly above the request.
Ramp_encode_strict(secs) ==
    IF \E i \in 1..Len(RAMP_CODES) : secs < RAMP_CODES[i][2]
    THEN RAMP_CODES[CHOOSE i \in 1..Len(RAMP_CODES) :
                       /\ secs < RAMP_CODES[i][2]
                       /\ \A j \in 1..(i - 1) : ~(secs < RAMP_CODES[j][2])][1]
    ELSE \h7A

(***************************************************************************)
(* Ramp::encode (codec.rs:80-88): the code of the first table entry whose  *)
(* seconds are not below the request, 0x7a when there is none.             *)
(***************************************************************************)
Ramp_encode(secs) ==
    IF \E i \in 1..Len(RAMP_CODES) : secs <= RAMP_CODES[i][2]
    THEN RAMP_CODES[CHOOSE i \in 1..Len(RAMP_CODES) :
                       /\ secs <= RAMP_CODES[i][2]
                       /\ \A j \in 1..(i - 1) : ~(secs <= RAMP_CODES[j][2])][1]
    ELSE \h7A

SetVar(g, l, r) == [tag |-> "SetVar", group |-> g, level |-> l, ramp |-> r]

StopRamp(g) == [tag |-> "StopRamp", group |-> g]

Status(g, st) == [tag |-> "Status", group |-> g, status |-> st]

Unrecognised(b) == [tag |-> "Unrecognised", bytes |-> b]

SetParam(p, st) == [tag |-> "SetParam", param |-> p, setting |-> st]

Reset == [tag |-> "Reset"]

\* A command_from_parts whose special rates do not look at the fourth byte.
command_from_parts_any_fourth(rate, group, third, fourth) ==
    IF rate = \h79 THEN Some(SetVar(group, ON, 0))
    ELSE IF rate = \h01 THEN Some(SetVar(group, OFF, 0))
    ELSE IF rate = \h09 THEN Some(StopRamp(group))
    ELSE IF fourth.some
         THEN LET r == Ramp_decode(rate)
              IN  IF r.some THEN Some(SetVar(group, third, r.val)) ELSE None
         ELSE None

(***************************************************************************)
(* command_from_parts (codec.rs:119-129).                                  *)
(***************************************************************************)
command_from_parts(rate, group, third, fourth) ==
    IF rate = \h79 /\ ~fourth.some THEN Some(SetVar(group, ON, 0))
    ELSE IF rate = \h01 /\ ~fourth.some THEN Some(SetVar(group, OFF, 0))
    ELSE IF rate = \h09 /\ ~fourth.some THEN Some(StopRamp(group))
    ELSE IF fourth.some
         THEN LET r == Ramp_decode(rate)
              IN  IF r.some THEN Some(SetVar(group, third, r.val)) ELSE None
         ELSE None

\* A status_from_parts that leaves the last byte in the payload.
status_from_parts_keeps_check(offset, status) ==
    IF Len(status) > 0
    THEN Some(Status(offset, status))
    ELSE None

(***************************************************************************)
(* status_from_parts (codec.rs:131-141): the last byte is popped.          *)
(***************************************************************************)
status_from_parts(offset, status) ==
    IF Len(status) > 0
    THEN Some(Status(offset, SubSeq(status, 1, Len(status) - 1)))
    ELSE None

(***************************************************************************)
(* command_pattern (codec.rs:144-150).                                     *)
(***************************************************************************)
command_pattern(inp) ==
    LET t1 == tag(<<"0", "5">>, inp)
        t2 == take(2, t1.rest)
        t3 == tag(<<"3", "8", "0", "0">>, t2.rest)
        rate  == hex_byte(t3.rest)
        group == hex_byte(rate.rest)
        third == hex_byte(group.rest)
        fourth == opt_hex_byte(third.rest)
    IN  IF t1.ok /\ t2.ok /\ t3.ok /\ rate.ok /\ group.ok /\ third.ok
        THEN LET m == command_from_parts(rate.val, group.val, third.val, fourth.val)
             IN  IF m.some
                 THEN [ok |-> TRUE, val |-> m.val, rest |-> fourth.rest]
                 ELSE Fail(inp)
        ELSE Fail(inp)

(***************************************************************************)
(* status_pattern (codec.rs:152-164).                                      *)
(***************************************************************************)
status_pattern(inp) ==
    LET t1 == tag(<<"8", "6">>, inp)
        t2 == take(4, t1.rest)
        t3 == tag(<<"0", "0">>, t2.rest)
        t4 == take(2, t3.rest)
        t5 == tag(<<"4", "0", "3", "8">>, t4.rest)
        offset == hex_byte(t5.rest)
        status == many1_hex_byte(offset.rest)
    IN  IF t1.ok /\ t2.ok /\ t3.ok /\ t4.ok /\ t5.ok /\ offset.ok /\ status.ok
        THEN LET m == status_from_parts(offset.val, status.val)
             IN  IF m.some
                 THEN [ok |-> TRUE, val |-> m.val, rest |-> status.rest]
                 ELSE Fail(inp)
        ELSE Fail(inp)

(***************************************************************************)
(* decode (codec.rs:143-174): all_consuming(alt((command_pattern,          *)
(* status_pattern))); anything but Ok is Unrecognised(bytes).              *)
(***************************************************************************)
decode(bytes) ==
    LET c == command_pattern(bytes)
        p == IF c.ok THEN c ELSE status_pattern(bytes)
    IN  IF p.ok /\ p.rest = <<>> THEN p.val ELSE Unrecognised(bytes)

(***************************************************************************)
(* The call decode(bytes).                                                 *)
(***************************************************************************)
Decode ==
    /\ message.tag = "none"
    /\ message' = decode(input)
    /\ UNCHANGED <<input>>
    /\ UNCHANGED <<framerVars, sessionVars, callVars, reactorVars>>

(***************************************************************************)
(* Setting bits and Param addresses (codec.rs:19-29, 42-46).               *)
(***************************************************************************)
CONNECT == 1

SMART == 16

MONITOR == 32

ID_MON == 64

LOCAL_SAL == 2

EX_STAT == 8

OPTIONS1 == 48

OPTIONS3 == 66

(***************************************************************************)
(* Setting's BitOr (codec.rs:32-38): bitwise or of two u8.                 *)
(***************************************************************************)
RECURSIVE BitOr(_, _)
BitOr(a, b) ==
    IF a = 0 THEN b
    ELSE IF b = 0 THEN a
    ELSE (IF a % 2 = 1 \/ b % 2 = 1 THEN 1 ELSE 0) + 2 * BitOr(a \div 2, b \div 2)

\* An encode that writes the code of the SetVar's ramp in the rate field.
encode_with_ramp(mesg) ==
    IF mesg.tag = "SetVar"
    THEN <<"\\", "0", "5", "3", "8", "0", "0">> \o Hex2U(Ramp_encode(mesg.ramp))
             \o Hex2U(mesg.group) \o Hex2U(mesg.level) \o <<CR>>
    ELSE IF mesg.tag = "SetParam"
    THEN <<"@", "A", "3">> \o Hex2L(mesg.param) \o <<"0", "0">>
             \o Hex2L(mesg.setting) \o <<CR>>
    ELSE IF mesg.tag = "Reset" THEN <<"~">>
    ELSE <<>>

\* An encode that writes a StopRamp as the device's stop-ramp command.
encode_stop_ramp(mesg) ==
    IF mesg.tag = "SetVar"
    THEN <<"\\", "0", "5", "3", "8", "0", "0", "0", "2">>
             \o Hex2U(mesg.group) \o Hex2U(mesg.level) \o <<CR>>
    ELSE IF mesg.tag = "SetParam"
    THEN <<"@", "A", "3">> \o Hex2L(mesg.param) \o <<"0", "0">>
             \o Hex2L(mesg.setting) \o <<CR>>
    ELSE IF mesg.tag = "Reset" THEN <<"~">>
    ELSE IF mesg.tag = "StopRamp"
    THEN <<"\\", "0", "5", "3", "8", "0", "0", "0", "9">> \o Hex2U(mesg.group) \o <<CR>>
    ELSE <<>>

(***************************************************************************)
(* encode (codec.rs:176-183): {:02X} is two uppercase hexadecimal digits,  *)
(* {:02x} two lowercase ones.                                              *)
(***************************************************************************)
encode(mesg) ==
    IF mesg.tag = "SetVar"
    THEN <<"\\", "0", "5", "3", "8", "0", "0", "0", "2">>
             \o Hex2U(mesg.group) \o Hex2U(mesg.level) \o <<CR>>
    ELSE IF mesg.tag = "SetParam"
    THEN <<"@", "A", "3">> \o Hex2L(mesg.param) \o <<"0", "0">>
             \o Hex2L(mesg.setting) \o <<CR>>
    ELSE IF mesg.tag = "Reset" THEN <<"~">>
    ELSE <<>>

\* A preamble that sets OPTIONS1 before OPTIONS3.
preamble_options1_first ==
    encode(Reset)
        \o encode(SetParam(OPTIONS1, BitOr(BitOr(BitOr(SMART, ID_MON), CONNECT), MONITOR)))
        \o encode(SetParam(OPTIONS3, BitOr(LOCAL_SAL, EX_STAT)))

(***************************************************************************)
(* preamble (codec.rs:185-194).                                            *)
(***************************************************************************)
preamble ==
    encode(Reset)
        \o encode(SetParam(OPTIONS3, BitOr(LOCAL_SAL, EX_STAT)))
        \o encode(SetParam(OPTIONS1, BitOr(BitOr(BitOr(SMART, ID_MON), CONNECT), MONITOR)))

(***************************************************************************)
(* The widths of the codec's integers: Group, Level, Param and Setting     *)
(* hold a u8 (codec.rs:16, 41, 92, 97), Ramp a u16 (codec.rs:68).          *)
(***************************************************************************)
U8_MAX == 255

U16_MAX == 65535

(***************************************************************************)
(* The calls Ramp(secs).encode(), Ramp::decode(code) and encode(mesg).     *)
(***************************************************************************)
Returned(v) == [done |-> TRUE, val |-> v]

NotReturned == [done |-> FALSE, val |-> 0]

RampEncode ==
    /\ call.op = "Ramp::encode"
    /\ ~ret.done
    /\ ret' = Returned(Ramp_encode(call.arg))
    /\ UNCHANGED <<call>>
    /\ UNCHANGED <<framerVars, codecVars, sessionVars, reactorVars>>

RampDecode ==
    /\ call.op = "Ramp::decode"
    /\ ~ret.done
    /\ ret' = Returned(Ramp_decode(call.arg))
    /\ UNCHANGED <<call>>
    /\ UNCHANGED <<framerVars, codecVars, sessionVars, reactorVars>>

Encode ==
    /\ call.op = "encode"
    /\ ~ret.done
    /\ ret' = Returned(encode(call.arg))
    /\ UNCHANGED <<call>>
    /\ UNCHANGED <<framerVars, codecVars, sessionVars, reactorVars>>

(***************************************************************************)
(* The connection supervisor and the outbound bus.  Their code is not      *)
(* among the sources; this part follows the specification (4.3 Connection  *)
(* Supervisor, 4.4 Event Bus, 5 Concurrency).                              *)
(***************************************************************************)
\* The messages the reactor publishes (gaffer.rs:26).
Published == {SetVar(4, ON, 0), SetVar(5, OFF, 30)}

\* Connecting: the TCP connection opens.
ConnectOk ==
    /\ sess = "Connecting"
    /\ sess' = "Handshaking"
    /\ UNCHANGED <<reason, attempt, wire, outLog, cursor, subAt, written, lost,
                   inTask, outTask, reads>>
    /\ UNCHANGED <<framerVars, codecVars, callVars, reactorVars>>

\* Connecting: the connection fails; the attempt is over.
ConnectFail ==
    /\ sess = "Connecting"
    /\ sess' = "Closed"
    /\ reason' = "connect"
    /\ UNCHANGED <<attempt, wire, outLog, cursor, subAt, written, lost,
                   inTask, outTask, reads>>
    /\ UNCHANGED <<framerVars, codecVars, callVars, reactorVars>>

\* A session that goes on with the subscription of the session before it.
subscribe_keeps_cursor(log, old) == old

\* A session subscribes fresh: it observes what is published from now on.
subscribe(log, old) == Len(log)

\* Handshaking: the preamble is written whole; the session subscribes to the
\* outbound bus and its two tasks start.
HandshakeOk ==
    /\ sess = "Handshaking"
    /\ wire' = wire \o preamble
    /\ cursor' = subscribe(outLog, cursor)
    /\ subAt' = Len(outLog)
    /\ sess' = "Active"
    /\ inTask' = "running"
    /\ outTask' = "running"
    /\ UNCHANGED <<reason, attempt, outLog, written, lost, reads>>
    /\ UNCHANGED <<framerVars, codecVars, callVars, reactorVars>>

\* Handshaking: the write fails after k bytes of the preamble.
HandshakeFail ==
    /\ sess = "Handshaking"
    /\ \E k \in 0..(Len(preamble) - 1) : wire' = wire \o SubSeq(preamble, 1, k)
    /\ sess' = "Closed"
    /\ reason' = "preamble"
    /\ UNCHANGED <<attempt, outLog, cursor, subAt, written, lost, inTask, outTask, reads>>
    /\ UNCHANGED <<framerVars, codecVars, callVars, reactorVars>>

\* A message is published to the outbound bus, whatever the session's
\* state; the publisher is not held up.
Publish ==
    /\ Len(outLog) < MaxPublishes
    /\ \E m \in Published : outLog' = Append(outLog, m)
    /\ lost' = IF sess = "Active" THEN lost ELSE lost \cup {Len(outLog) + 1}
    /\ UNCHANGED <<sess, reason, attempt, wire, cursor, subAt, written, inTask, outTask, reads>>
    /\ UNCHANGED <<framerVars, codecVars, callVars, reactorVars>>

\* Active: the output task takes the oldest message its subscription has not
\* passed and writes its encoding to the device.
OutputWrite ==
    /\ outTask = "running"
    /\ cursor < Len(outLog)
    /\ Len(outLog) - cursor <= MaxQueue
    /\ Len(written) < MaxWrites
    /\ wire' = wire \o encode(outLog[cursor + 1])
    /\ written' = Append(written, cursor + 1)
    /\ cursor' = cursor + 1
    /\ UNCHANGED <<sess, reason, attempt, outLog, subAt, lost, inTask, outTask, reads>>
    /\ UNCHANGED <<framerVars, codecVars, callVars, reactorVars>>

\* Active: the subscription fell more than the capacity behind; the output
\* task is told so and goes on from the oldest message the bus still holds.
OutputLagged ==
    /\ outTask = "running"
    /\ Len(outLog) - cursor > MaxQueue
    /\ cursor' = Len(outLog) - MaxQueue
    /\ UNCHANGED <<sess, reason, attempt, wire, outLog, subAt, written, lost,
                   inTask, outTask, reads>>
    /\ UNCHANGED <<framerVars, codecVars, callVars, reactorVars>>

\* Active: the input task reads a line, decodes it and publishes it as an
\* inbound event.
InputLine ==
    /\ inTask = "running"
    /\ reads < MaxReads
    /\ reads' = reads + 1
    /\ UNCHANGED <<sess, reason, attempt, wire, outLog, cursor, subAt, written, lost,
                   inTask, outTask>>
    /\ UNCHANGED <<framerVars, codecVars, callVars, reactorVars>>

\* An end of the input task that leaves the output task running.
InputEndsAlone ==
    /\ inTask = "running"
    /\ sess' = "Closed"
    /\ reason' = "read"
    /\ inTask' = "ended"
    /\ UNCHANGED <<attempt, wire, outLog, cursor, subAt, written, lost, outTask, reads>>
    /\ UNCHANGED <<framerVars, codecVars, callVars, reactorVars>>

\* Active: the input task ends (read_lines returned its error, busio.rs:96);
\* the session closes and the output task is cancelled.
InputEnds ==
    /\ inTask = "running"
    /\ sess' = "Closed"
    /\ reason' = "read"
    /\ inTask' = "ended"
    /\ outTask' = "cancelled"
    /\ UNCHANGED <<attempt, wire, outLog, cursor, subAt, written, lost, reads>>
    /\ UNCHANGED <<framerVars, codecVars, callVars, reactorVars>>

\* Active: the output task ends, on a write error or because the outbound
\* subscription closed; the session closes and the input task is cancelled.
OutputEnds ==
    /\ outTask = "running"
    /\ sess' = "Closed"
    /\ reason' \in {"write", "closed"}
    /\ outTask' = "ended"
    /\ inTask' = "cancelled"
    /\ UNCHANGED <<attempt, wire, outLog, cursor, subAt, written, lost, reads>>
    /\ UNCHANGED <<framerVars, codecVars, callVars, reactorVars>>

\* A retry that gives up once connecting itself has failed.
RetryUnlessConnectFailed ==
    /\ sess = "Closed"
    /\ reason # "connect"
    /\ sess' = "Connecting"
    /\ attempt' = Min(attempt + 1, MaxAttempts)
    /\ wire' = <<>>
    /\ written' = <<>>
    /\ reads' = 0
    /\ inTask' = "none"
    /\ outTask' = "none"
    /\ UNCHANGED <<reason, outLog, cursor, subAt, lost>>
    /\ UNCHANGED <<framerVars, codecVars, callVars, reactorVars>>

\* The outer daemon loop: on Closed, the fixed delay passes and the next
\* attempt starts from Connecting, on a new connection.
Retry ==
    /\ sess = "Closed"
    /\ sess' = "Connecting"
    /\ attempt' = Min(attempt + 1, MaxAttempts)
    /\ wire' = <<>>
    /\ written' = <<>>
    /\ reads' = 0
    /\ inTask' = "none"
    /\ outTask' = "none"
    /\ UNCHANGED <<reason, outLog, cursor, subAt, lost>>
    /\ UNCHANGED <<framerVars, codecVars, callVars, reactorVars>>

(***************************************************************************)
(* The reactor (gaffer.rs) between the two broadcast buses, and the HTTP   *)
(* source (server.rs).  Event is Cbus(Message) or Hmi(Post) (gaffer.rs:15- *)
(* 16), Post is Level, On or Off (server.rs:8-12).                         *)
(***************************************************************************)
Level(g, l, r) == [kind |-> "Level", group |-> g, level |-> l, ramp |-> r]

On(name) == [kind |-> "On", name |-> name]

Off(name) == [kind |-> "Off", name |-> name]

Hmi(post) == [src |-> "Hmi", post |-> post]

Cbus(mesg) == [src |-> "Cbus", message |-> mesg]

\* Err(RecvError::Lagged(n)), what recv returns to a Receiver that fell behind.
Lagged(n) == [src |-> "Lagged", n |-> n]

\* The posts the HTTP source makes of its three headers (server.rs:21-26).
LevelPosts == {Level(4, ON, 0), Level(5, 31, 30)}

\* The events of the other producers of the inbound bus.
OtherEvents ==
    {Hmi(On("hall")), Hmi(Off("hall")), Cbus(SetVar(4, ON, 0)), Cbus(Status(176, <<0>>))}

\* broadcast::Sender::send is Ok exactly when the channel has a Receiver
\* (server.rs:22, 27; gaffer.rs:26, 30).
send_is_ok(receivers) == receivers > 0

\* The Receiver's backlog after a send: a full channel overwrites its oldest
\* value, which this Receiver then has missed.
enqueue(q, ev) == IF Len(q) < BusCapacity THEN Append(q, ev) ELSE Append(Tail(q), ev)

missed(q) == IF Len(q) < BusCapacity THEN 0 ELSE 1

\* A react_to_cbus that repeats a SetVar seen on the device bus.
react_to_cbus_echo(mesg) == IF mesg.tag = "SetVar" THEN <<mesg>> ELSE <<>>

\* react_to_cbus (gaffer.rs:35-40): the Messages it sends, none.
react_to_cbus(mesg) == <<>>

\* react_to_hmi (gaffer.rs:24-28): the Messages it sends.
react_to_hmi(post) ==
    IF post.kind = "Level" THEN <<SetVar(post.group, post.level, post.ramp)>> ELSE <<>>

\* The handler of POST /v1/level (server.rs:21-33).
ServerPost ==
    /\ posted < MaxEvents
    /\ \E post \in LevelPosts :
        /\ inq' = IF gafferRx THEN enqueue(inq, Hmi(post)) ELSE inq
        /\ lagged' = IF gafferRx THEN lagged + missed(inq) ELSE lagged
    /\ httpStatus' = IF send_is_ok(IF gafferRx THEN 1 ELSE 0)
                      THEN "OK" ELSE "INTERNAL_SERVER_ERROR"
    /\ posted' = posted + 1
    /\ UNCHANGED <<gafferRx, outSubs, received, sent, printed, gpc>>
    /\ UNCHANGED <<framerVars, codecVars, sessionVars, callVars>>

\* Another holder of the inbound Sender sends an event.
InboundSend ==
    /\ posted < MaxEvents
    /\ \E ev \in OtherEvents :
        /\ inq' = IF gafferRx THEN enqueue(inq, ev) ELSE inq
        /\ lagged' = IF gafferRx THEN lagged + missed(inq) ELSE lagged
    /\ posted' = posted + 1
    /\ UNCHANGED <<gafferRx, outSubs, received, sent, printed, gpc, httpStatus>>
    /\ UNCHANGED <<framerVars, codecVars, sessionVars, callVars>>

\* A gaffer_daemon that leaves its loop when recv returns an error.
GafferRecvStopsOnError ==
    /\ gpc = "loop"
    /\ lagged > 0 \/ inq # <<>>
    /\ IF lagged > 0
       THEN /\ received' = Append(received, Lagged(lagged))
            /\ lagged' = 0
            /\ printed' = Append(printed, "recv")
            /\ gpc' = "returned"
            /\ UNCHANGED <<inq, sent>>
       ELSE LET event == Head(inq)
                out == IF event.src = "Cbus" THEN react_to_cbus(event.message)
                       ELSE react_to_hmi(event.post)
                ok == send_is_ok(outSubs)
            IN  /\ received' = Append(received, event)
                /\ inq' = Tail(inq)
                /\ sent' = sent \o [i \in 1..Len(out) |-> [mesg |-> out[i], ok |-> ok]]
                /\ printed' = IF out # <<>> /\ ~ok THEN Append(printed, "send") ELSE printed
                /\ UNCHANGED <<lagged, gpc>>
    /\ UNCHANGED <<gafferRx, posted, outSubs, httpStatus>>
    /\ UNCHANGED <<framerVars, codecVars, sessionVars, callVars>>

\* One turn of the loop of gaffer_daemon (gaffer.rs:11-21): recv returns
\* Err(Lagged) to a Receiver that missed events, and else the oldest event.
GafferRecv ==
    /\ gpc = "loop"
    /\ lagged > 0 \/ inq # <<>>
    /\ IF lagged > 0
       THEN /\ received' = Append(received, Lagged(lagged))
            /\ lagged' = 0
            /\ printed' = Append(printed, "recv")
            /\ UNCHANGED <<inq, sent>>
       ELSE LET event == Head(inq)
                out == IF event.src = "Cbus" THEN react_to_cbus(event.message)
                       ELSE react_to_hmi(event.post)
                ok == send_is_ok(outSubs)
            IN  /\ received' = Append(received, event)
                /\ inq' = Tail(inq)
                /\ sent' = sent \o [i \in 1..Len(out) |-> [mesg |-> out[i], ok |-> ok]]
                /\ printed' = IF out # <<>> /\ ~ok THEN Append(printed, "send") ELSE printed
                /\ UNCHANGED <<lagged>>
    /\ UNCHANGED <<gafferRx, posted, outSubs, gpc, httpStatus>>
    /\ UNCHANGED <<framerVars, codecVars, sessionVars, callVars>>

\* A session's output task subscribes to the outbound bus, or drops its
\* Receiver when the session closes.
Subscribe ==
    /\ outSubs < MaxSubs
    /\ outSubs' = outSubs + 1
    /\ UNCHANGED <<gafferRx, inq, lagged, posted, received, sent, printed, gpc, httpStatus>>
    /\ UNCHANGED <<framerVars, codecVars, sessionVars, callVars>>

Unsubscribe ==
    /\ outSubs > 0
    /\ outSubs' = outSubs - 1
    /\ UNCHANGED <<gafferRx, inq, lagged, posted, received, sent, printed, gpc, httpStatus>>
    /\ UNCHANGED <<framerVars, codecVars, sessionVars, callVars>>

(***************************************************************************)
(* The framer alone: read_lines over every stream of at most MaxStream     *)
(* bytes, split into reads in every way.                                   *)
(***************************************************************************)
FramerIdle ==
    /\ stream = <<>>
    /\ pos = 0
    /\ buf = <<>>
    /\ pc = "idle"
    /\ delivered = <<>>
    /\ result = [ok |-> FALSE, err |-> "none"]
    /\ peak = 0

CodecIdle ==
    /\ input = <<>>
    /\ message = [tag |-> "none"]

SessionIdle ==
    /\ sess = "idle"
    /\ reason = "none"
    /\ attempt = 0
    /\ wire = <<>>
    /\ outLog = <<>>
    /\ cursor = 0
    /\ subAt = 0
    /\ written = <<>>
    /\ lost = {}
    /\ inTask = "none"
    /\ outTask = "none"
    /\ reads = 0

ReactorIdle ==
    /\ gafferRx = FALSE
    /\ inq = <<>>
    /\ lagged = 0
    /\ posted = 0
    /\ outSubs = 0
    /\ received = <<>>
    /\ sent = <<>>
    /\ printed = <<>>
    /\ gpc = "idle"
    /\ httpStatus = "none"

CallIdle ==
    /\ call = [op |-> "none", arg |-> 0]
    /\ ret = [done |-> FALSE, val |-> 0]

InitFramer ==
    /\ stream \in SeqsUpTo(Byte, MaxStream)
    /\ pos = 0
    /\ buf = <<>>
    /\ pc = "main"
    /\ delivered = <<>>
    /\ result = [ok |-> FALSE, err |-> "none"]
    /\ peak = 0
    /\ CodecIdle
    /\ SessionIdle
    /\ CallIdle
    /\ ReactorIdle

NextFramer == ReadMain \/ ReadDrop \/ ReadEof \/ ReadError

SpecFramer == InitFramer /\ [][NextFramer]_vars

(***************************************************************************)
(* The lines decode is applied to: command lines with every rate byte,     *)
(* status lines, and lines with a wrong tag, a field that is no pair of    *)
(* hexadecimal digits, bytes left over, or cut short at any length.        *)
(***************************************************************************)
RECURSIVE Flatten(_)
Flatten(ss) == IF ss = <<>> THEN <<>> ELSE Head(ss) \o Flatten(Tail(ss))

Prefixes(b) == {SubSeq(b, 1, k) : k \in 0..Len(b)}

CommandLine(t1, addr, t2, fields) == t1 \o addr \o t2 \o Flatten(fields)

StatusLine(skip4, skip2, fields) ==
    <<"8", "6">> \o skip4 \o <<"0", "0">> \o skip2 \o <<"4", "0", "3", "8">> \o Flatten(fields)

MaxStatusBytes == 3

OddPairs == {<<"z", "4">>, <<"+", "9">>, <<"0", "g">>, <<NonAscii, "9">>, <<"-", "1">>}

WellFormedCommands ==
    {CommandLine(<<"0", "5">>, <<"0", "0">>, <<"3", "8", "0", "0">>,
                 <<h[1], Hex2U(g), Hex2U(l)>> \o f) :
        h \in {<<Hex2U(r)>> : r \in 0..255} \cup {<<Hex2L(r)>> : r \in 0..255},
        g \in {4, 176}, l \in {0, 31},
        f \in {<<>>, << <<"0", "0">> >>, << <<"3", "E">> >>}}

MalformedCommands ==
    {CommandLine(t1, addr, t2, <<p1, p2, p3>> \o f) \o tr :
        t1 \in {<<"0", "5">>, <<"0", "6">>},
        addr \in {<<"0", "0">>, <<"z", "z">>},
        t2 \in {<<"3", "8", "0", "0">>, <<"3", "8", "0", "1">>},
        p1 \in {<<"7", "9">>, <<"0", "9">>, <<"2", "A">>} \cup OddPairs,
        p2 \in {<<"0", "4">>, <<"z", "4">>, <<"+", "4">>},
        p3 \in {<<"1", "F">>, <<"1", "g">>},
        f \in {<<>>, << <<"0", "0">> >>, << <<"+", "0">> >>, << <<"z", "z">> >>},
        tr \in {<<>>, <<"A", "1">>, <<"0">>}}

StatusLines ==
    {StatusLine(skip4, <<"F", "7">>, <<off>> \o data) \o tr :
        skip4 \in {<<"0", "8", "1", "5">>, <<"z", "z", "z", "z">>},
        off \in {<<"B", "0">>, <<"b", "0">>, <<"+", "B">>, <<"z", "z">>},
        data \in SeqsUpTo({<<"0", "0">>, <<"3", "E">>, <<"z", "0">>}, MaxStatusBytes),
        tr \in {<<>>, <<"0">>}}

\* The lines of the tests of codec.rs (codec.rs:200-262).
TestSetvarLevel ==
    <<"0", "5", "0", "0", "3", "8", "0", "0", "2", "A", "0", "4", "1", "F", "0", "0">>

TestStatusZero ==
    StatusLine(<<"0", "8", "1", "5">>, <<"F", "7">>,
               << <<"B", "0">> >> \o [i \in 1..20 |-> <<"0", "0">>] \o << <<"3", "E">> >>)

TestLongMessage ==
    <<"0", "5", "0", "0", "3", "8", "0", "0", "2", "4", "0", "4", "1", "F", "0", "0", "A", "1">>

DecodeInputs ==
    WellFormedCommands \cup MalformedCommands \cup StatusLines
        \cup Prefixes(TestSetvarLevel) \cup Prefixes(TestStatusZero)
        \cup {TestLongMessage}

(***************************************************************************)
(* The codec alone: decode over DecodeInputs.                              *)
(***************************************************************************)
InitCodec ==
    /\ input \in DecodeInputs
    /\ message = [tag |-> "none"]
    /\ FramerIdle
    /\ SessionIdle
    /\ CallIdle
    /\ ReactorIdle

NextCodec == Decode

SpecCodec == InitCodec /\ [][NextCodec]_vars

(***************************************************************************)
(* The encoders alone: Ramp::encode over every u16, Ramp::decode over      *)
(* every u8, encode over Messages of every variant.                        *)
(***************************************************************************)
RampSamples == {0, 4, 30, 1020, U16_MAX}

LevelSamples == {OFF, 1, 10, 127, 171, ON}

StatusPayloads == SeqsUpTo({0, 10, U8_MAX}, MaxStatusBytes)

EncodeInputs ==
    {SetVar(g, l, r) : g \in 0..U8_MAX, l \in LevelSamples, r \in RampSamples}
        \cup {SetParam(p, st) : p \in {0, 10, OPTIONS1, OPTIONS3, U8_MAX}, st \in 0..U8_MAX}
        \cup {StopRamp(g) : g \in 0..U8_MAX}
        \cup {Status(g, st) : g \in {0, 10, U8_MAX}, st \in StatusPayloads}
        \cup {Unrecognised(b) : b \in Prefixes(TestSetvarLevel)}
        \cup {Reset}

InitEncode ==
    /\ \/ \E secs \in 0..U16_MAX : call = [op |-> "Ramp::encode", arg |-> secs]
       \/ \E code \in 0..U8_MAX : call = [op |-> "Ramp::decode", arg |-> code]
       \/ \E mesg \in EncodeInputs : call = [op |-> "encode", arg |-> mesg]
    /\ ret = NotReturned
    /\ FramerIdle
    /\ CodecIdle
    /\ SessionIdle
    /\ ReactorIdle

NextEncode ==
    \/ RampEncode
    \/ RampDecode
    \/ Encode

SpecEncode == InitEncode /\ [][NextEncode]_vars

(***************************************************************************)
(* The reactor and the HTTP source.  gaffer_daemon runs on the Receiver    *)
(* its caller made; a bus whose Receiver was never made has no subscriber. *)
(***************************************************************************)
InitReactor ==
    /\ gafferRx \in BOOLEAN
    /\ inq = <<>>
    /\ lagged = 0
    /\ posted = 0
    /\ outSubs \in 0..MaxSubs
    /\ received = <<>>
    /\ sent = <<>>
    /\ printed = <<>>
    /\ gpc = IF gafferRx THEN "loop" ELSE "idle"
    /\ httpStatus = "none"
    /\ FramerIdle
    /\ CodecIdle
    /\ SessionIdle
    /\ CallIdle

NextReactor ==
    \/ ServerPost
    \/ InboundSend
    \/ GafferRecv
    \/ Subscribe
    \/ Unsubscribe

SpecReactor == InitReactor /\ [][NextReactor]_vars

(***************************************************************************)
(* The supervisor: sessions one after another, for ever.  The fixed delay  *)
(* of the outer loop always ends, so Retry is taken once it is enabled.    *)
(***************************************************************************)
InitSession ==
    /\ sess = "Connecting"
    /\ reason = "none"
    /\ attempt = 1
    /\ wire = <<>>
    /\ outLog = <<>>
    /\ cursor = 0
    /\ subAt = 0
    /\ written = <<>>
    /\ lost = {}
    /\ inTask = "none"
    /\ outTask = "none"
    /\ reads = 0
    /\ FramerIdle
    /\ CodecIdle
    /\ CallIdle
    /\ ReactorIdle

NextSession ==
    \/ ConnectOk
    \/ ConnectFail
    \/ HandshakeOk
    \/ HandshakeFail
    \/ Publish
    \/ OutputWrite
    \/ OutputLagged
    \/ InputLine
    \/ InputEnds
    \/ OutputEnds
    \/ Retry

SpecSession == InitSession /\ [][NextSession]_vars

SpecSessionFair == SpecSession /\ WF_vars(Retry)

(***************************************************************************)
(* Properties of the framer.                                               *)
(***************************************************************************)
\* The bytes read so far.
Consumed == SubSeq(stream, 1, pos)

\* n bytes of line content.
Content(n) == [i \in 1..n |-> "a"]

IsContent(b) == \A i \in 1..Len(b) : b[i] \notin {CR, LF}

Terminators == {<<LF>>, <<CR, LF>>}

\* The whole stream has been read and processed, and read_lines still runs.
AllRead == pos = Len(stream) /\ pc \in {"main", "drop"}

\* C1: read_lines never invokes the callback with a line longer than
\* LINE_LEN bytes, whatever the stream and however it is split into reads.
C1_NoLongLineDelivered ==
    \A i \in 1..Len(delivered) : Len(delivered[i]) <= LINE_LEN

\* C1's case: a terminated line longer than LINE_LEN and a short line have
\* been read; only the short one reached the callback.
C1_Witness ==
    /\ stream = Content(LINE_LEN + 1) \o <<LF, "a", LF>>
    /\ AllRead
    /\ delivered = << <<"a">> >>

\* C2: the delivered sequence does not depend on fragmentation: a stream
\* read in any pieces delivers what the same stream delivers in one read.
C2_FragmentationIndependent ==
    (AllRead /\ Len(stream) <= CHUNK_LEN)
        => delivered = emit_lines(stream).out

\* C7: an oversized terminated line immediately followed by a terminated
\* line of at most LINE_LEN bytes: the callback is invoked exactly once,
\* with the short line, for every fragmentation.
C7_OnlyShortLineDelivered ==
    \A n \in (LINE_LEN + 1)..MaxStream, m \in 0..LINE_LEN, t1 \in Terminators, t2 \in Terminators :
        (AllRead /\ stream = Content(n) \o t1 \o Content(m) \o t2)
            => delivered = <<Content(m)>>

\* C8: a terminated line of exactly LINE_LEN bytes is delivered and one of
\* LINE_LEN + 1 bytes is not, whichever terminator ends it and however the
\* reads split the line and its terminator.
C8_BoundaryLine ==
    \A t \in Terminators :
        /\ (AllRead /\ stream = Content(LINE_LEN) \o t)
               => delivered = <<Content(LINE_LEN)>>
        /\ (AllRead /\ stream = Content(LINE_LEN + 1) \o t)
               => delivered = <<>>

Refilled == buf \o SubSeq(stream, pos + 1, pos')

\* b starts with a line of content ended by LF or CRLF.
StartsWithLine(b) ==
    LET i == FirstEol(b)
    IN  i > 0 /\ (b[i] = LF \/ (i < Len(b) /\ b[i + 1] = LF))

\* b's first CR or LF is a CR followed by a byte other than LF.
StartsWithBareCr(b) ==
    LET i == FirstEol(b)
    IN  i > 0 /\ b[i] = CR /\ i < Len(b) /\ b[i + 1] # LF

RECURSIVE CountLf(_)
CountLf(b) ==
    IF b = <<>> THEN 0 ELSE (IF Head(b) = LF THEN 1 ELSE 0) + CountLf(Tail(b))

\* C10: read_lines returns only with an error: UnexpectedEof when a read
\* yields zero bytes (the stream is exhausted), the read's own error
\* otherwise, never Ok; and the unterminated tail of the buffer is never
\* passed to the callback (each delivered line consumed its own LF).
C10_ReturnsOnlyError ==
    /\ result.ok = FALSE
    /\ (pc = "returned") = (result.err # "none")
    /\ result.err \in {"none", "UnexpectedEof"} \cup IoErrors
    /\ result.err = "UnexpectedEof" => pos = Len(stream)
    /\ Len(delivered) <= CountLf(Consumed)

\* C10's case: the stream ended after two delivered lines and an
\* unterminated tail; read_lines returned UnexpectedEof, the tail is lost.
C10_Witness ==
    /\ pc = "returned"
    /\ result.err = "UnexpectedEof"
    /\ Len(delivered) = 2
    /\ buf # <<>>
    /\ IsContent(buf)

\* C18: the framer's buffer is bounded for every input: it never holds more
\* than LINE_LEN + CHUNK_LEN bytes, resized for a read or between reads, and
\* a read in normal mode is issued with at most LINE_LEN bytes buffered.
C18_BufferBounded ==
    /\ Len(buf) <= LINE_LEN + CHUNK_LEN
    /\ peak <= LINE_LEN + CHUNK_LEN
    /\ pc = "main" => Len(buf) <= LINE_LEN

\* C18's case: a read of CHUNK_LEN bytes on top of LINE_LEN buffered ones has
\* filled the buffer to its bound, with no terminator in it.
C18_Witness ==
    /\ pc = "drop"
    /\ Len(buf) = LINE_LEN + CHUNK_LEN
    /\ peak = LINE_LEN + CHUNK_LEN
    /\ IsContent(buf)

(***************************************************************************)
(* Properties of the codec.                                                *)
(***************************************************************************)
HexDigitChars == {"0", "1", "2", "3", "4", "5", "6", "7", "8", "9",
                  "a", "b", "c", "d", "e", "f", "A", "B", "C", "D", "E", "F"}

\* The value of the two hexadecimal digits at b[i], b[i + 1].
HexAt(b, i) == 16 * to_digit(b[i]) + to_digit(b[i + 1])

AllHexFrom(b, i) == \A k \in i..Len(b) : b[k] \in HexDigitChars

\* b is a command-form line: 05, two skipped characters, 3800, then three
\* or four fields of two hexadecimal digits, and nothing more.
IsCommandForm(b) ==
    /\ Len(b) \in {14, 16}
    /\ SubSeq(b, 1, 2) = <<"0", "5">>
    /\ SubSeq(b, 5, 8) = <<"3", "8", "0", "0">>
    /\ AllHexFrom(b, 9)

\* b is a status-form line: 86, four skipped characters, 00, two skipped
\* characters, 4038, then an offset and one or more bytes, each two
\* hexadecimal digits, and nothing more.
IsStatusForm(b) ==
    /\ Len(b) >= 18
    /\ Len(b) % 2 = 0
    /\ SubSeq(b, 1, 2) = <<"8", "6">>
    /\ SubSeq(b, 7, 8) = <<"0", "0">>
    /\ SubSeq(b, 11, 14) = <<"4", "0", "3", "8">>
    /\ AllHexFrom(b, 15)

MessageTags == {"SetParam", "SetVar", "Reset", "StopRamp", "Status", "Unrecognised"}

Decoded == message.tag # "none"

\* C3: decode always returns a Message, and a line that is neither a
\* command-form nor a status-form line (a wrong tag or length, bytes left
\* over, an odd length, a data field that is not two hexadecimal digits)
\* decodes to Unrecognised holding the line unchanged.
C3_MalformedIsUnrecognised ==
    Decoded =>
        /\ message.tag \in MessageTags
        /\ (Len(input) % 2 = 1 \/ ~(IsCommandForm(input) \/ IsStatusForm(input)))
               => message = Unrecognised(input)

\* What C4 says decode returns for a command-form line.
C4_Expected(b) ==
    LET rate  == HexAt(b, 9)
        group == HexAt(b, 11)
        third == HexAt(b, 13)
        hasFourth == Len(b) = 16
    IN  IF rate = \h79 /\ ~hasFourth THEN SetVar(group, ON, 0)
        ELSE IF rate = \h01 /\ ~hasFourth THEN SetVar(group, OFF, 0)
        ELSE IF rate = \h09 /\ ~hasFourth THEN StopRamp(group)
        ELSE IF hasFourth /\ \E i \in 1..Len(RAMP_CODES) : RAMP_CODES[i][1] = rate
             THEN SetVar(group, third,
                         RAMP_CODES[CHOOSE i \in 1..Len(RAMP_CODES) : RAMP_CODES[i][1] = rate][2])
             ELSE Unrecognised(b)

\* C4: a command-form line decodes to SetVar(group, ON, Ramp(0)) for rate
\* 0x79, SetVar(group, OFF, Ramp(0)) for rate 0x01 and StopRamp(group) for
\* rate 0x09 when there is no fourth byte, to SetVar(group, Level(third),
\* Ramp(seconds of rate)) when there is a fourth byte and the rate is one of
\* the 16 ramp codes, and to Unrecognised in every other combination.
C4_CommandDecoding ==
    (Decoded /\ IsCommandForm(input)) => message = C4_Expected(input)

\* C4's case: the line of the test setvar_level has been decoded.
C4_Witness ==
    /\ input = TestSetvarLevel
    /\ message = SetVar(4, \h1F, 30)

\* Every byte as two uppercase hexadecimal digits, and some in lowercase.
CheckBytes == {Hex2U(v) : v \in 0..U8_MAX} \cup {Hex2L(v) : v \in {10, 171, U8_MAX}}

\* The line b with its last two characters replaced by c.
WithLastByte(b, c) == SubSeq(b, 1, Len(b) - 2) \o c

\* The bytes of a status-form line after the offset, but for the last one.
StatusPayload(b) == [i \in 1..((Len(b) - 18) \div 2) |-> HexAt(b, 15 + 2 * i)]

\* C12 as stated: a status-form line (86, 4 skipped characters, 00, 2
\* skipped characters, 4038, a hex byte offset, then n >= 1 hex bytes,
\* nothing more) decodes to Status(Group(offset), the first n - 1 of those
\* bytes), and the Message does not depend on the checksum byte: with only
\* the last byte of a status line, or only the fourth data byte of a command
\* line, changed to any other hex byte, decode returns the same Message.
C12_ChecksumNeverMatters ==
    /\ (Decoded /\ IsStatusForm(input)) =>
           /\ message = Status(HexAt(input, 15), StatusPayload(input))
           /\ \A c \in CheckBytes : decode(WithLastByte(input, c)) = message
    /\ (Decoded /\ IsCommandForm(input) /\ Len(input) = 16) =>
           \A c \in CheckBytes : decode(WithLastByte(input, c)) = message

\* C12, amended: a status-form line decodes to Status(Group(offset), the
\* first n - 1 bytes) whatever its last byte is; a command line with a
\* fourth data byte decodes to the same SetVar whatever that byte is when
\* its rate is a ramp code, and when it is not, to Unrecognised holding the
\* line itself, fourth byte included, whatever that byte is.
C12_ChecksumIgnored ==
    /\ (Decoded /\ IsStatusForm(input)) =>
           /\ message = Status(HexAt(input, 15), StatusPayload(input))
           /\ \A c \in CheckBytes : decode(WithLastByte(input, c)) = message
    /\ (Decoded /\ IsCommandForm(input) /\ Len(input) = 16) =>
           \A c \in CheckBytes :
               decode(WithLastByte(input, c)) =
                   IF HexAt(input, 9) \in {RAMP_CODES[i][1] : i \in 1..Len(RAMP_CODES)}
                   THEN message
                   ELSE Unrecognised(WithLastByte(input, c))

\* C12's case: the line of the test status_zero has been decoded: offset
\* B0, twenty zero bytes, and the checksum 3E left out.
C12_Witness ==
    /\ input = TestStatusZero
    /\ message = Status(\hB0, [i \in 1..20 |-> 0])

(***************************************************************************)
(* Properties of the supervisor.                                           *)
(***************************************************************************)
\* The preamble on the wire: ~@A342000a\r@A3300071\r
PreambleWire ==
    <<"~", "@", "A", "3", "4", "2", "0", "0", "0", "a", CR,
           "@", "A", "3", "3", "0", "0", "0", "7", "1", CR>>

IsPrefix(p, b) == Len(p) <= Len(b) /\ SubSeq(b, 1, Len(p)) = p

\* C5: on every connection, the first and every later one, the bytes
\* written begin with the whole preamble Reset, SetParam(OPTIONS3, ...),
\* SetParam(OPTIONS1, ...) in that order, and nothing from the outbound bus
\* is written before the preamble is complete.
C5_PreambleFirst ==
    /\ sess = "Active" => IsPrefix(PreambleWire, wire)
    /\ IsPrefix(wire, PreambleWire) \/ IsPrefix(PreambleWire, wire)
    /\ sess \in {"Connecting", "Handshaking"} => wire = <<>>

\* C5's case: a reconnected session has written the preamble and, after it,
\* a message from the outbound bus.
C5_Witness ==
    /\ sess = "Active"
    /\ attempt >= 2
    /\ wire = PreambleWire \o encode(SetVar(4, ON, 0))

\* C6: the supervisor has no terminal state: every Closed, whatever closed
\* the session, is followed by a new Connecting attempt.
C6_ClosedLeadsToConnecting ==
    \A r \in {"connect", "preamble", "read", "write", "closed"} :
        (sess = "Closed" /\ reason = r) ~> (sess = "Connecting")

\* C6's case: the supervisor is connecting again after a session that was
\* closed by a read failure, itself not the first attempt.
C6_Witness ==
    /\ sess = "Connecting"
    /\ reason = "read"
    /\ attempt = MaxAttempts

\* C16: a session's input task and output task are coupled: the session is
\* Active only while both are running, and as soon as either one terminates
\* (read EOF or error, write error, outbound subscription closed) the
\* session is Closed, the surviving task is cancelled and does no further
\* read, publish or write on that connection, and the reason surfaced is
\* that of the first task to fail.
C16_TasksCoupled ==
    /\ [](/\ sess = "Active" <=> (inTask = "running" /\ outTask = "running")
          /\ inTask = "ended" => (sess = "Closed" /\ reason = "read" /\ outTask = "cancelled")
          /\ outTask = "ended" =>
                 (sess = "Closed" /\ reason \in {"write", "closed"} /\ inTask = "cancelled"))
    /\ [][(sess = "Closed" /\ sess' = "Closed") =>
             (wire' = wire /\ written' = written /\ reads' = reads /\ reason' = reason)]_vars

\* C16's case: the input task ended first, after a line read and a message
\* written, and the output task was cancelled with a message of its
\* subscription still unwritten.
C16_Witness ==
    /\ sess = "Closed" /\ reason = "read"
    /\ inTask = "ended" /\ outTask = "cancelled"
    /\ reads > 0 /\ written # <<>>
    /\ cursor < Len(outLog)

RECURSIVE EncodedAll(_, _)
\* The bytes of the messages at the places ids of the log, one after another.
EncodedAll(log, ids) ==
    IF ids = <<>> THEN <<>> ELSE encode(log[Head(ids)]) \o EncodedAll(log, Tail(ids))

\* C17: a message published to the outbound bus while no session is Active
\* (before the first session, or between Closed and the next session's
\* subscription) is never written to any device connection; each session
\* writes only messages published after it subscribed, and writes them in
\* the order they were published.
C17_NoReplay ==
    /\ \A i \in 1..Len(written) :
           /\ written[i] \notin lost
           /\ written[i] > subAt
           /\ \A j \in 1..(i - 1) : written[j] < written[i]
    /\ sess = "Active" => wire = PreambleWire \o EncodedAll(outLog, written)

\* C17's case: a message was published before the session subscribed and two
\* after; the reconnected session has written the two later ones.
C17_Witness ==
    /\ sess = "Active" /\ attempt >= 2
    /\ lost # {} /\ subAt > 0
    /\ Len(written) = 2

(***************************************************************************)
(* Properties of the encoders.                                             *)
(***************************************************************************)
RampCodeOf(secs) == RAMP_CODES[CHOOSE i \in 1..Len(RAMP_CODES) : RAMP_CODES[i][2] = secs][1]

Canonical == {RAMP_CODES[i][2] : i \in 1..Len(RAMP_CODES)}

TableCodes == {RAMP_CODES[i][1] : i \in 1..Len(RAMP_CODES)}

LongestRamp == CHOOSE d \in Canonical : \A e \in Canonical : e <= d

\* C11: for every duration s of a u16, Ramp(s).encode() is the code of the
\* smallest of the 16 canonical durations that is at least s, and the code of
\* 1020 seconds (0x7a) when s is above 1020; so decoding it gives Some(d)
\* with d >= s for s <= 1020 and d = s for a canonical s; Ramp::decode
\* returns None for every code outside the table's 16 codes.
C11_RampEncodeRoundsUp ==
    /\ Cardinality(Canonical) = 16 /\ Cardinality(TableCodes) = 16
    /\ LongestRamp = 1020 /\ RampCodeOf(LongestRamp) = \h7A
    /\ ret.done /\ call.op = "Ramp::encode" =>
           LET s == call.arg
               least == CHOOSE d \in Canonical :
                            /\ d >= s
                            /\ \A e \in Canonical : e >= s => d <= e
           IN  /\ s <= LongestRamp =>
                      /\ ret.val = RampCodeOf(least)
                      /\ Ramp_decode(ret.val).some
                      /\ Ramp_decode(ret.val).val >= s
               /\ s > LongestRamp => ret.val = RampCodeOf(LongestRamp)
               /\ s \in Canonical => Ramp_decode(ret.val) = Some(s)
    /\ ret.done /\ call.op = "Ramp::decode" =>
           /\ call.arg \notin TableCodes => ret.val = None
           /\ call.arg \in TableCodes =>
                  ret.val.some /\ RampCodeOf(ret.val.val) = call.arg

\* C11's case: a request of 5 seconds, between two canonical durations, has
\* been encoded as the code of 8 seconds.
C11_Witness ==
    /\ call.op = "Ramp::encode" /\ call.arg = 5
    /\ ret.done /\ ret.val = \h12

UpperHexChars == {"0", "1", "2", "3", "4", "5", "6", "7", "8", "9",
                  "A", "B", "C", "D", "E", "F"}

LowerHexChars == {"0", "1", "2", "3", "4", "5", "6", "7", "8", "9",
                  "a", "b", "c", "d", "e", "f"}

\* b[i], b[i + 1] are two digits of the set chars that spell the value v.
FieldIs(b, i, chars, v) ==
    /\ b[i] \in chars /\ b[i + 1] \in chars
    /\ HexAt(b, i) = v

EncodedAs(tagName) == ret.done /\ call.op = "encode" /\ call.arg.tag = tagName

\* C13: encode of SetVar does not depend on the ramp: for every group g,
\* level l and ramps r1, r2, encode(SetVar(g, l, r1)) = encode(SetVar(g, l, r2))
\* = backslash, "05380002", g as two uppercase hex digits, l as two uppercase
\* hex digits, CR; the rate field is always 02, the code of a 0-second ramp.
C13_SetVarIgnoresRamp ==
    EncodedAs("SetVar") =>
        LET g == call.arg.group
            l == call.arg.level
        IN  /\ Len(ret.val) = 14
            /\ SubSeq(ret.val, 1, 9) = <<"\\", "0", "5", "3", "8", "0", "0", "0", "2">>
            /\ FieldIs(ret.val, 8, UpperHexChars, Ramp_encode(0))
            /\ FieldIs(ret.val, 10, UpperHexChars, g)
            /\ FieldIs(ret.val, 12, UpperHexChars, l)
            /\ ret.val[14] = CR
            /\ \A r2 \in RampSamples : encode(SetVar(g, l, r2)) = ret.val

\* C13's case: a SetVar with a 30-second ramp has been encoded, and its
\* bytes carry the group and the level in uppercase and the rate 02.
C13_Witness ==
    /\ call.op = "encode" /\ call.arg = SetVar(171, 10, 30)
    /\ ret.done
    /\ ret.val = <<"\\", "0", "5", "3", "8", "0", "0", "0", "2", "A", "B", "0", "A", CR>>

\* C19: encoding a Message that is not a command never fails and gives no
\* bytes: StopRamp, Status and Unrecognised encode to the empty sequence for
\* all arguments; Reset encodes to the single byte "~"; SetParam(p, s)
\* encodes to "@A3", p as two lowercase hex digits, "00", s as two lowercase
\* hex digits, CR.
C19_NonCommandsEncodeEmpty ==
    /\ EncodedAs("StopRamp") \/ EncodedAs("Status") \/ EncodedAs("Unrecognised") =>
           ret.val = <<>>
    /\ EncodedAs("Reset") => ret.val = <<"~">>
    /\ EncodedAs("SetParam") =>
           /\ Len(ret.val) = 10
           /\ SubSeq(ret.val, 1, 3) = <<"@", "A", "3">>
           /\ FieldIs(ret.val, 4, LowerHexChars, call.arg.param)
           /\ SubSeq(ret.val, 6, 7) = <<"0", "0">>
           /\ FieldIs(ret.val, 8, LowerHexChars, call.arg.setting)
           /\ ret.val[10] = CR

\* C19's case: a StopRamp has been encoded, to no bytes at all.
C19_Witness ==
    /\ call.op = "encode" /\ call.arg = StopRamp(171)
    /\ ret.done /\ ret.val = <<>>

(***************************************************************************)
(* Properties of the reactor and the buses.                                *)
(***************************************************************************)
RECURSIVE Translation(_)
\* What the specification has the reactor publish for a sequence of receives.
Translation(rs) ==
    IF rs = <<>> THEN <<>>
    ELSE LET r == Head(rs)
         IN  (IF r.src = "Hmi" /\ r.post.kind = "Level"
              THEN <<[tag |-> "SetVar", group |-> r.post.group,
                      level |-> r.post.level, ramp |-> r.post.ramp]>>
              ELSE <<>>) \o Translation(Tail(rs))

SentMessages == [i \in 1..Len(sent) |-> sent[i].mesg]

\* C14: the reactor is a stateless translator: for each Hmi(Post::Level(g,
\* l, r)) it receives, gaffer publishes exactly one SetVar(g, l, r) with the
\* same three values to the outbound bus, in the order the events were
\* received; for an Hmi of another kind and for a Cbus it publishes nothing.
C14_StatelessTranslator == SentMessages = Translation(received)

\* C14's case: gaffer has received a Cbus SetVar, an Hmi On and two Level
\* posts, and has published the two SetVar of the posts, in their order.
C14_Witness ==
    /\ \E i, j \in 1..Len(received) :
           /\ received[i] = Cbus(SetVar(4, ON, 0))
           /\ received[j].src = "Hmi" /\ received[j].post.kind # "Level"
    /\ SentMessages = <<SetVar(5, 31, 30), SetVar(4, ON, 0)>>

\* C15: publishing to either bus is non-blocking and best-effort: with zero
\* active subscribers, or a subscriber more than the capacity behind, the
\* publish still succeeds for the producer and no error is reported to it:
\* the HTTP source's publish to the inbound bus and the reactor's publish to
\* the outbound bus do not report failure when nobody is subscribed.
C15_PublishNeverFails ==
    /\ httpStatus # "INTERNAL_SERVER_ERROR"
    /\ \A i \in 1..Len(sent) : sent[i].ok
    /\ \A i \in 1..Len(printed) : printed[i] # "send"

Last(q) == q[Len(q)]

IsLevelEvent(r) == r.src = "Hmi" /\ r.post.kind = "Level"

\* C20: the reactor absorbs receive failures: when inbound.recv() returns an
\* error (the subscriber lagged and events were skipped), gaffer_daemon does
\* not terminate and publishes nothing for that receive, and every
\* Hmi(Post::Level) it receives afterwards is still translated to SetVar; a
\* failed publish to the outbound bus does not stop the loop either.
C20_RecvErrorsAbsorbed ==
    /\ [](gafferRx => gpc = "loop")
    /\ [][received' # received =>
             /\ gpc' = "loop"
             /\ Last(received').src = "Lagged" => sent' = sent
             /\ IsLevelEvent(Last(received')) =>
                    /\ Len(sent') = Len(sent) + 1
                    /\ Last(sent').mesg = [tag |-> "SetVar",
                                           group |-> Last(received').post.group,
                                           level |-> Last(received').post.level,
                                           ramp |-> Last(received').post.ramp]]_vars

\* C20's case: recv returned Lagged, a Level post received after it was
\* translated, its publish failed, and the post after that one was
\* translated too; gaffer_daemon is still in its loop.
C20_Witness ==
    /\ gpc = "loop"
    /\ Len(received) = 3 /\ Len(sent) = 2
    /\ received[1].src = "Lagged"
    /\ IsLevelEvent(received[2]) /\ IsLevelEvent(received[3])
    /\ ~sent[1].ok

====
